---- MODULE Spec2Model ----
(***************************************************************************)
(* Model of klippy/extras/lis3dh.py: the LIS3DH accelerometer driver.      *)
(*                                                                         *)
(*   Spec        the driver as a state machine: the start handler          *)
(*               (_start_measurements), the stop handler                   *)
(*               (_finish_measurements), the periodic batch callback       *)
(*               (_process_batch) and the device emitting bursts.          *)
(*   SpecDecode  the decoder (_extract_samples) applied to drawn inputs.   *)
(*   SpecRecord  the decoding of one 6-byte record over all byte pairs.    *)
(*   SpecSetReg  set_reg applied to drawn registers, values and            *)
(*               read-backs.                                               *)
(*   SpecAxes    read_axes_map applied to drawn axes_map options, and the  *)
(*               axis values of one record under the result.               *)
(*                                                                         *)
(* The control thread is cooperative: a handler runs to the next blocking  *)
(* transport operation, so each handler is a chain of steps indexed by pc, *)
(* and the device may emit a burst between two steps.                      *)
(***************************************************************************)
EXTENDS Integers, Sequences, FiniteSets, TLC

VARIABLES
    pc,             \* position of the control thread inside a handler
    lifecycle,      \* Idle / Verifying / Armed / Sampling / Stopping
    cfg_i,          \* index of the next configuration write of a start
    regs,           \* the device's registers (address -> byte)
    log,            \* transport operations of the current/last handler run
    err,            \* error raised by the last handler run, or "none"
    queue,          \* bulk_queue: bursts buffered since the last pull/clear
    streaming,      \* the MCU is polling the chip and sending bursts
    dev_seq,        \* MCU side: sequence number of the next burst
    sent,           \* bursts the MCU has sent so far
    last_sequence,  \* clock_updater.last_sequence
    last_error_count, \* self.last_error_count
    batch,          \* outcome of the last _process_batch call
    dec,            \* SpecDecode: inputs and outcome of _extract_samples
    rec,            \* SpecRecord: one 6-byte record and its decoding
    sr,             \* SpecSetReg: one set_reg call and its outcome
    ax,             \* SpecAxes: one axes_map and its use on one record
    decoded         \* history: the ids of the bursts handed to the decoder

vars == << pc, lifecycle, cfg_i, regs, log, err, queue, streaming, dev_seq,
           sent, last_sequence, last_error_count, batch, dec, rec, sr, ax,
           decoded >>

driverVars == << pc, lifecycle, cfg_i, regs, log, err, queue, streaming,
                 dev_seq, sent, last_sequence, last_error_count, batch,
                 decoded >>

----------------------------------------------------------------------------
(* Registers and constants, lis3dh.py lines 11-36 *)

REG_LIS3DH_WHO_AM_I_ADDR == 15
REG_LIS3DH_CTRL_REG1_ADDR == 32
REG_LIS3DH_CTRL_REG2_ADDR == 33
REG_LIS3DH_CTRL_REG3_ADDR == 34
REG_LIS3DH_CTRL_REG4_ADDR == 35
REG_LIS3DH_CTRL_REG5_ADDR == 36
REG_LIS3DH_CTRL_REG6_ADDR == 37
REG_LIS3DH_FIFO_CTRL == 46
REG_MOD_READ == 128
LIS3DH_DEV_ID == 51
BYTES_PER_SAMPLE == 6
\* bulk_sensor.MAX_BULK_MSG_SIZE (klippy/extras/bulk_sensor.py)
MAX_BULK_MSG_SIZE == 51
SAMPLES_PER_BLOCK == MAX_BULK_MSG_SIZE \div BYTES_PER_SAMPLE

----------------------------------------------------------------------------
(* Bounds of the model *)

\* bursts the MCU sends in one behaviour
MaxBursts == 2

----------------------------------------------------------------------------
(* Python's integer operators on the operands the driver gives them *)

RECURSIVE BitAnd(_, _)
\* a & b for naturals
BitAnd(a, b) ==
    IF a = 0 \/ b = 0 THEN 0
    ELSE (a % 2) * (b % 2) + 2 * BitAnd(a \div 2, b \div 2)

RECURSIVE BitOr(_, _)
\* a | b for naturals
BitOr(a, b) ==
    IF a = 0 THEN b
    ELSE IF b = 0 THEN a
    ELSE (IF a % 2 = 1 \/ b % 2 = 1 THEN 1 ELSE 0)
         + 2 * BitOr(a \div 2, b \div 2)

RECURSIVE Pow2(_)
Pow2(n) == IF n = 0 THEN 1 ELSE 2 * Pow2(n - 1)

\* a << n
Shl(a, n) == a * Pow2(n)

\* x & mask for a mask 2^k - 1 and any integer x (Python treats a negative
\* x as an infinite two's-complement number: the result is x mod 2^k)
AndMask(x, mask) == x % (mask + 1)

----------------------------------------------------------------------------
(* The device and the transport *)

Regs == { REG_LIS3DH_WHO_AM_I_ADDR, REG_LIS3DH_CTRL_REG1_ADDR,
          REG_LIS3DH_CTRL_REG2_ADDR, REG_LIS3DH_CTRL_REG3_ADDR,
          REG_LIS3DH_CTRL_REG4_ADDR, REG_LIS3DH_CTRL_REG5_ADDR,
          REG_LIS3DH_CTRL_REG6_ADDR, REG_LIS3DH_FIFO_CTRL }

\* What a miswired or faulty chip answers instead of the stored byte.
FaultBytes == {255}

\* The bytes a read of the identity register can return: the LIS3DH's, or
\* what another chip or a broken wire answers.
IdReads == {LIS3DH_DEV_ID, 0, 255}

\* The bytes a register can hold after spi_send([reg, b]): b, or a fault.
StoredAfterWrite(b) == {b} \cup FaultBytes

\* spi_send([reg, val & 0xFF]) as a log entry: the byte put on the bus
WriteOp(reg, val) == << "write", reg, AndMask(val, 255) >>

\* read_reg: spi_transfer([reg | REG_MOD_READ, 0x00]) as a log entry, with
\* response[1], the byte the chip answered
ReadOp(reg, response) == << "read", BitOr(reg, REG_MOD_READ), response >>

\* faulty variant: the read-back is not compared
SetRegFailsSkipped(val, stored_val) == FALSE

\* faulty variant: set_reg writes and does not read back
SetRegOpsNoRead(reg, val, stored_val) == << WriteOp(reg, val) >>

\* set_reg's test of the read-back against the requested value
SetRegFails(val, stored_val) == stored_val # val

\* the transport operations of one set_reg call, in order
SetRegOps(reg, val, stored_val) ==
    << WriteOp(reg, val), ReadOp(reg, stored_val) >>

\* the other transport operations, as log entries
ClearOp == << "clear", 0, 0 >>
QueryOp(rest_ticks) == << "query", rest_ticks, 0 >>
QueryWaitAckOp(rest_ticks) == << "query_wait_ack", rest_ticks, 0 >>
AckOp == << "ack", 0, 0 >>
NoteStartOp == << "note_start", 0, 0 >>

\* self.data_rate
data_rate == 1344
\* the MCU's clock frequency (mcu.seconds_to_clock)
MCU_FREQ == 12000000
\* mcu.seconds_to_clock(num / den)
seconds_to_clock(num, den) == (num * MCU_FREQ) \div den

----------------------------------------------------------------------------
(* The decoder, _extract_samples                                           *)
(*                                                                         *)
(* Times are carried in units of 1e-7 s and rounded to microseconds;       *)
(* axis values are carried in units of 1e-3 mm/s^2.                        *)

\* SCALE = FREEFALL_ACCEL * 1000 * (8*2)/16 * 1 / 2**12, in 1e-3 mm/s^2
SCALE == 2394

\* faulty variant: a negative label inverts the sign of its channel
AxesTableInverting(a) ==
    CASE a = "x" -> << 0, SCALE >>
      [] a = "y" -> << 1, SCALE >>
      [] a = "z" -> << 2, SCALE >>
      [] a = "-x" -> << 0, -SCALE >>
      [] a = "-y" -> << 1, -SCALE >>
      [] a = "-z" -> << 2, -SCALE >>

\* read_axes_map's table am, and the default axes_map ('x', 'y', 'z')
AxesTable(a) ==
    CASE a = "x" -> << 0, SCALE >>
      [] a = "y" -> << 1, SCALE >>
      [] a = "z" -> << 2, SCALE >>
      [] a = "-x" -> << 0, 0 >>
      [] a = "-y" -> << 1, 0 >>
      [] a = "-z" -> << 2, 0 >>

AxisLabels == {"x", "y", "z", "-x", "-y", "-z"}

read_axes_map(labels) == [k \in 1..3 |-> AxesTable(labels[k])]

\* line 76: some configured label is not a key of am (config.error)
axes_map_invalid(labels) == \E k \in 1..3 : labels[k] \notin AxisLabels

DefaultAxes == << "x", "y", "z" >>

\* round(t, 6) of a time t given in 1e-7 s: microseconds, ties to even
Round6(t) ==
    LET q == t \div 10
        r == t % 10
    IN  IF r > 5 \/ (r = 5 /\ q % 2 = 1) THEN q + 1 ELSE q

\* faulty variant: the difference left unsigned
SeqDiffUnsigned(sequence, last_seq) == AndMask(sequence - last_seq, 65535)

\* lines 120-121: the signed 16-bit difference of the burst's sequence
\* number and the last known sequence
SeqDiff(sequence, last_seq) ==
    LET seq_diff == AndMask(sequence - last_seq, 65535)
    IN  seq_diff - Shl(BitAnd(seq_diff, 32768), 1)

\* faulty variant: the difference taken with the wrong sign
ResolveSeqMinus(sequence, last_seq) == last_seq - SeqDiff(sequence, last_seq)

\* line 122: the absolute sequence of the burst
ResolveSeq(sequence, last_seq) == last_seq + SeqDiff(sequence, last_seq)

\* faulty variant: the sign bit shifted by 8, not 9
TwosComplementShift8(low, high) ==
    BitOr(Shl(high, 8), low) - Shl(BitAnd(high, 128), 8)

\* lines 131-133: merge two bytes and perform twos-complement
TwosComplement(low, high) ==
    BitOr(Shl(high, 8), low) - Shl(BitAnd(high, 128), 9)

\* lines 127-134: raw_xyz of record i (from 0) of payload d
RawXYZ(d, i) ==
    LET d_xyz == SubSeq(d, i * BYTES_PER_SAMPLE + 1,
                           (i + 1) * BYTES_PER_SAMPLE)
        xlow == d_xyz[1]
        xhigh == d_xyz[2]
        ylow == d_xyz[3]
        yhigh == d_xyz[4]
        zlow == d_xyz[5]
        zhigh == d_xyz[6]
    IN  << TwosComplement(xlow, xhigh), TwosComplement(ylow, yhigh),
           TwosComplement(zlow, zhigh) >>

\* lines 136-138: one output axis, round(raw_xyz[pos] * scale, 6); a
\* product of an integer and a scale in 1e-3 has no digit to round away
AxisValue(raw_xyz, entry) == raw_xyz[entry[1] + 1] * entry[2]

\* faulty variant: the records of a burst counted from one
SampleFromOne(d, i, msg_cdiff, axes_map, tt) ==
    LET raw_xyz == RawXYZ(d, i)
    IN  [ ptime |-> Round6(tt.time_base + (msg_cdiff + i + 1) * tt.inv_freq),
          x |-> AxisValue(raw_xyz, axes_map[1]),
          y |-> AxisValue(raw_xyz, axes_map[2]),
          z |-> AxisValue(raw_xyz, axes_map[3]) ]

\* lines 127-141: the sample of record i of a burst
Sample(d, i, msg_cdiff, axes_map, tt) ==
    LET raw_xyz == RawXYZ(d, i)
    IN  [ ptime |-> Round6(tt.time_base + (msg_cdiff + i) * tt.inv_freq),
          x |-> AxisValue(raw_xyz, axes_map[1]),
          y |-> AxisValue(raw_xyz, axes_map[2]),
          z |-> AxisValue(raw_xyz, axes_map[3]) ]

\* faulty variant: the samples of a message put before the earlier ones
BurstStepPrepend(params, st, last_seq, axes_map, tt) ==
    LET seq == ResolveSeq(params.sequence, last_seq)
        d == params.data
        msg_cdiff == seq * SAMPLES_PER_BLOCK - tt.chip_base
        n == Len(d) \div BYTES_PER_SAMPLE
    IN  [ count |-> st.count + n,
          seq |-> seq,
          i |-> IF n > 0 THEN n - 1 ELSE st.i,
          i_bound |-> st.i_bound \/ n > 0,
          samples |->
              [k \in 1..n |-> Sample(d, k - 1, msg_cdiff, axes_map, tt)]
              \o st.samples ]

\* lines 119-142: one pass of the outer loop. st holds the locals count,
\* seq, i (bound or not) and samples[0:count].
BurstStep(params, st, last_seq, axes_map, tt) ==
    LET seq == ResolveSeq(params.sequence, last_seq)
        d == params.data
        msg_cdiff == seq * SAMPLES_PER_BLOCK - tt.chip_base
        n == Len(d) \div BYTES_PER_SAMPLE
    IN  [ count |-> st.count + n,
          seq |-> seq,
          i |-> IF n > 0 THEN n - 1 ELSE st.i,
          i_bound |-> st.i_bound \/ n > 0,
          samples |-> st.samples \o
              [k \in 1..n |-> Sample(d, k - 1, msg_cdiff, axes_map, tt)] ]

RECURSIVE BurstLoop(_, _, _, _, _, _)
\* lines 117-142: the loop over raw_samples from its k-th message
BurstLoop(raw_samples, k, st, last_seq, axes_map, tt) ==
    IF k > Len(raw_samples) THEN st
    ELSE BurstLoop(raw_samples, k + 1,
                   BurstStep(raw_samples[k], st, last_seq, axes_map, tt),
                   last_seq, axes_map, tt)

\* line 143: the argument of set_last_chip_clock. The loop variable i is
\* read after the loops: it is bound only if some message held a record.
ChipClockArg(st) == st.seq * SAMPLES_PER_BLOCK + st.i

\* _extract_samples: the samples returned, the values given to
\* clock_sync.set_last_chip_clock, and the exception raised, if any
extract_samples(raw_samples, last_seq, axes_map, tt) ==
    LET st0 == [ count |-> 0, seq |-> 0, i |-> 0, i_bound |-> FALSE,
                 samples |-> << >> ]
        st == BurstLoop(raw_samples, 1, st0, last_seq, axes_map, tt)
    IN  IF ~st.i_bound
        THEN [ error |-> "UnboundLocalError", samples |-> << >>,
               updates |-> << >> ]
        ELSE [ error |-> "none", samples |-> st.samples,
               updates |-> << ChipClockArg(st) >> ]

----------------------------------------------------------------------------
(* The driver: start, stop and the batch callback *)

\* faulty variant: the identity test left out
IdMismatchSkipped(dev_id) == FALSE

\* line 152: the identity test
IdMismatch(dev_id) == dev_id # LIS3DH_DEV_ID

\* faulty variant: the FIFO enabled before it is disabled
StartWritesFifoSwapped ==
    << << REG_LIS3DH_CTRL_REG1_ADDR, 151 >>,
       << REG_LIS3DH_CTRL_REG2_ADDR, 0 >>,
       << REG_LIS3DH_CTRL_REG3_ADDR, 0 >>,
       << REG_LIS3DH_CTRL_REG4_ADDR, 40 >>,
       << REG_LIS3DH_CTRL_REG5_ADDR, 64 >>,
       << REG_LIS3DH_CTRL_REG6_ADDR, 0 >>,
       << REG_LIS3DH_FIFO_CTRL, 128 >>,
       << REG_LIS3DH_FIFO_CTRL, 0 >> >>

\* lines 158-165: the configuration writes of a start, in program order
StartWrites ==
    << << REG_LIS3DH_CTRL_REG1_ADDR, 151 >>,
       << REG_LIS3DH_CTRL_REG2_ADDR, 0 >>,
       << REG_LIS3DH_CTRL_REG3_ADDR, 0 >>,
       << REG_LIS3DH_CTRL_REG4_ADDR, 40 >>,
       << REG_LIS3DH_CTRL_REG5_ADDR, 64 >>,
       << REG_LIS3DH_CTRL_REG6_ADDR, 0 >>,
       << REG_LIS3DH_FIFO_CTRL, 0 >>,
       << REG_LIS3DH_FIFO_CTRL, 128 >> >>

\* line 170: the re-write of the FIFO streaming bit after the query command
StartReWrite == << REG_LIS3DH_FIFO_CTRL, 128 >>

\* lines 177, 181, 182: the register writes of a stop
StopWriteFifo == << REG_LIS3DH_FIFO_CTRL, 0 >>
StopWritePower == << REG_LIS3DH_CTRL_REG1_ADDR, 0 >>

\* line 168: rest_ticks
RestTicks == seconds_to_clock(4, data_rate)

\* The payloads a burst message can carry: none, less than one record,
\* one record, two records.
Payloads ==
    { << >>,
      << 1, 2, 3, 4, 5 >>,
      << 16, 0, 255, 127, 0, 128 >>,
      << 1, 0, 2, 0, 3, 0, 255, 255, 254, 255, 253, 255 >> }

\* clock_sync.get_time_translation() in the driver runs
TimeTranslation == [ time_base |-> 0, chip_base |-> 0, inv_freq |-> 7440 ]

\* ChipClockUpdater.update_clock: last_sequence follows the MCU's
\* next_sequence modulo 2^16
UpdateClockSeq(last_seq, next_sequence) ==
    last_seq + AndMask(next_sequence - last_seq, 65535)

NoBatch ==
    [ result |-> "none", pulled |-> << >>, samples |-> << >>,
      updates |-> << >>, errors |-> 0, last_seq |-> 0 ]

\* set_reg(reg, val) on a chip that ends up holding stored_val
DoSetReg(reg, val, stored_val) ==
    /\ regs' = [regs EXCEPT ![reg] = stored_val]
    /\ log' = log \o SetRegOps(reg, val, stored_val)

\* An exception leaves the handler: the caller (BatchBulkHelper) marks the
\* sensor as not started.
Raise(e) ==
    /\ pc' = "idle"
    /\ lifecycle' = "Idle"
    /\ err' = e

\* lines 150-157: the identity check of _start_measurements
StartRequest ==
    /\ pc = "idle"
    /\ lifecycle = "Idle"
    /\ \E dev_id \in IdReads :
         /\ regs' = [regs EXCEPT ![REG_LIS3DH_WHO_AM_I_ADDR] = dev_id]
         /\ log' = << ReadOp(REG_LIS3DH_WHO_AM_I_ADDR, dev_id) >>
         /\ IF IdMismatch(dev_id)
            THEN Raise("DeviceIdentityError") /\ cfg_i' = cfg_i
            ELSE /\ pc' = "config"
                 /\ lifecycle' = "Verifying"
                 /\ err' = "none"
                 /\ cfg_i' = 1
    /\ UNCHANGED << queue, streaming, dev_seq, last_sequence,
                    last_error_count, batch, sent, dec, rec, sr, ax, decoded >>

\* faulty variant: a failed read-back does not end the handler
ConfigWriteNoAbort ==
    /\ pc = "config"
    /\ LET reg == StartWrites[cfg_i][1]
           val == StartWrites[cfg_i][2]
       IN  \E stored_val \in StoredAfterWrite(AndMask(val, 255)) :
             /\ DoSetReg(reg, val, stored_val)
             /\ IF cfg_i = Len(StartWrites)
                THEN /\ pc' = "start_clear"
                     /\ lifecycle' = "Armed"
                     /\ UNCHANGED << err, cfg_i >>
                ELSE /\ cfg_i' = cfg_i + 1
                     /\ UNCHANGED << pc, lifecycle, err >>
    /\ UNCHANGED << queue, streaming, dev_seq, last_sequence,
                    last_error_count, batch, sent, dec, rec, sr, ax, decoded >>

\* lines 158-165: the next configuration write
ConfigWrite ==
    /\ pc = "config"
    /\ LET reg == StartWrites[cfg_i][1]
           val == StartWrites[cfg_i][2]
       IN  \E stored_val \in StoredAfterWrite(AndMask(val, 255)) :
             /\ DoSetReg(reg, val, stored_val)
             /\ IF SetRegFails(val, stored_val)
                THEN Raise("DeviceIntegrityError") /\ cfg_i' = cfg_i
                ELSE IF cfg_i = Len(StartWrites)
                THEN /\ pc' = "start_clear"
                     /\ lifecycle' = "Armed"
                     /\ UNCHANGED << err, cfg_i >>
                ELSE /\ cfg_i' = cfg_i + 1
                     /\ UNCHANGED << pc, lifecycle, err >>
    /\ UNCHANGED << queue, streaming, dev_seq, last_sequence,
                    last_error_count, batch, sent, dec, rec, sr, ax, decoded >>

\* faulty variant: the start does not clear the buffer
StartClearSkipped ==
    /\ pc = "start_clear"
    /\ pc' = "start_query"
    /\ UNCHANGED << lifecycle, cfg_i, regs, log, err, queue, streaming,
                    dev_seq, last_sequence, last_error_count, batch, sent,
                    dec, rec, sr, ax, decoded >>

\* line 167: bulk_queue.clear_samples()
StartClear ==
    /\ pc = "start_clear"
    /\ queue' = << >>
    /\ log' = Append(log, ClearOp)
    /\ pc' = "start_query"
    /\ UNCHANGED << lifecycle, cfg_i, regs, err, streaming, dev_seq,
                    last_sequence, last_error_count, batch, sent,
                    dec, rec, sr, ax, decoded >>

\* lines 168-169: query_lis3dh_cmd.send([oid, rest_ticks]); the MCU starts
\* polling the chip and numbers its messages from 0
StartQuery ==
    /\ pc = "start_query"
    /\ log' = Append(log, QueryOp(RestTicks))
    /\ streaming' = (RestTicks # 0)
    /\ dev_seq' = 0
    /\ pc' = "start_rewrite"
    /\ UNCHANGED << lifecycle, cfg_i, regs, err, queue, last_sequence,
                    last_error_count, batch, sent, dec, rec, sr, ax, decoded >>

\* line 170: set_reg(REG_LIS3DH_FIFO_CTRL, 0x80)
StartReFifo ==
    /\ pc = "start_rewrite"
    /\ \E stored_val \in StoredAfterWrite(AndMask(StartReWrite[2], 255)) :
         /\ DoSetReg(StartReWrite[1], StartReWrite[2], stored_val)
         /\ IF SetRegFails(StartReWrite[2], stored_val)
            THEN Raise("DeviceIntegrityError")
            ELSE pc' = "start_note" /\ UNCHANGED << lifecycle, err >>
    /\ UNCHANGED << cfg_i, queue, streaming, dev_seq, last_sequence,
                    last_error_count, batch, sent, dec, rec, sr, ax, decoded >>

\* lines 173-174: clock_updater.note_start() and last_error_count = 0
StartNote ==
    /\ pc = "start_note"
    /\ log' = Append(log, NoteStartOp)
    /\ last_sequence' = UpdateClockSeq(0, dev_seq)
    /\ last_error_count' = 0
    /\ pc' = "idle"
    /\ lifecycle' = "Sampling"
    /\ UNCHANGED << cfg_i, regs, err, queue, streaming, dev_seq, batch,
                    sent, dec, rec, sr, ax, decoded >>

\* line 177: set_reg(REG_LIS3DH_FIFO_CTRL, 0x00)
StopRequest ==
    /\ pc = "idle"
    /\ lifecycle = "Sampling"
    /\ \E stored_val \in StoredAfterWrite(AndMask(StopWriteFifo[2], 255)) :
         /\ regs' = [regs EXCEPT ![StopWriteFifo[1]] = stored_val]
         /\ log' = SetRegOps(StopWriteFifo[1], StopWriteFifo[2], stored_val)
         /\ IF SetRegFails(StopWriteFifo[2], stored_val)
            THEN Raise("DeviceIntegrityError")
            ELSE /\ pc' = "stop_halt"
                 /\ lifecycle' = "Stopping"
                 /\ err' = "none"
    /\ UNCHANGED << cfg_i, queue, streaming, dev_seq, last_sequence,
                    last_error_count, batch, sent, dec, rec, sr, ax, decoded >>

\* faulty variant: the halt command sent with send(), not waiting for the MCU
StopHaltNoWait ==
    /\ pc = "stop_halt"
    /\ log' = Append(log, QueryWaitAckOp(0))
    /\ pc' = "stop_clear"
    /\ UNCHANGED << lifecycle, cfg_i, regs, err, queue, streaming, dev_seq,
                    last_sequence, last_error_count, batch, sent, dec, rec,
                    sr, ax, decoded >>

\* line 178: query_lis3dh_cmd.send_wait_ack([oid, 0]), the command is sent
StopHalt ==
    /\ pc = "stop_halt"
    /\ log' = Append(log, QueryWaitAckOp(0))
    /\ pc' = "stop_wait"
    /\ UNCHANGED << lifecycle, cfg_i, regs, err, queue, streaming, dev_seq,
                    last_sequence, last_error_count, batch, sent,
                    dec, rec, sr, ax, decoded >>

\* line 178: the MCU stops polling and acknowledges; send_wait_ack returns
McuAck ==
    /\ pc = "stop_wait"
    /\ streaming' = FALSE
    /\ log' = Append(log, AckOp)
    /\ pc' = "stop_clear"
    /\ UNCHANGED << lifecycle, cfg_i, regs, err, queue, dev_seq,
                    last_sequence, last_error_count, batch, sent,
                    dec, rec, sr, ax, decoded >>

\* faulty variant: the stop notes the clear and keeps the buffer
StopClearKeeps ==
    /\ pc = "stop_clear"
    /\ queue' = queue
    /\ log' = Append(log, ClearOp)
    /\ pc' = "stop_fifo"
    /\ UNCHANGED << lifecycle, cfg_i, regs, err, streaming, dev_seq,
                    last_sequence, last_error_count, batch, sent,
                    dec, rec, sr, ax, decoded >>

\* line 179: bulk_queue.clear_samples()
StopClear ==
    /\ pc = "stop_clear"
    /\ queue' = << >>
    /\ log' = Append(log, ClearOp)
    /\ pc' = "stop_fifo"
    /\ UNCHANGED << lifecycle, cfg_i, regs, err, streaming, dev_seq,
                    last_sequence, last_error_count, batch, sent,
                    dec, rec, sr, ax, decoded >>

\* line 181: set_reg(REG_LIS3DH_FIFO_CTRL, 0x00)
StopFifo ==
    /\ pc = "stop_fifo"
    /\ \E stored_val \in StoredAfterWrite(AndMask(StopWriteFifo[2], 255)) :
         /\ DoSetReg(StopWriteFifo[1], StopWriteFifo[2], stored_val)
         /\ IF SetRegFails(StopWriteFifo[2], stored_val)
            THEN Raise("DeviceIntegrityError")
            ELSE pc' = "stop_power" /\ UNCHANGED << lifecycle, err >>
    /\ UNCHANGED << cfg_i, queue, streaming, dev_seq, last_sequence,
                    last_error_count, batch, sent, dec, rec, sr, ax, decoded >>

\* line 182: set_reg(REG_LIS3DH_CTRL_REG1_ADDR, 0)
StopPowerDown ==
    /\ pc = "stop_power"
    /\ \E stored_val \in StoredAfterWrite(AndMask(StopWritePower[2], 255)) :
         /\ DoSetReg(StopWritePower[1], StopWritePower[2], stored_val)
         /\ IF SetRegFails(StopWritePower[2], stored_val)
            THEN Raise("DeviceIntegrityError")
            ELSE /\ pc' = "idle"
                 /\ lifecycle' = "Idle"
                 /\ err' = err
    /\ UNCHANGED << cfg_i, queue, streaming, dev_seq, last_sequence,
                    last_error_count, batch, sent, dec, rec, sr, ax, decoded >>

\* the payloads of the bursts the MCU sends: no record, one, two
DevicePayloads == Payloads \ { << 1, 2, 3, 4, 5 >> }

\* The MCU sends one burst message; bulk_queue buffers it. id numbers the
\* bursts in the order the MCU sent them.
DeviceBurst ==
    /\ streaming
    /\ sent < MaxBursts
    /\ sent' = sent + 1
    /\ \E data \in DevicePayloads :
         queue' = Append(queue, [ id |-> sent + 1,
                                  sequence |-> AndMask(dev_seq, 65535),
                                  data |-> data ])
    /\ dev_seq' = dev_seq + 1
    /\ UNCHANGED << pc, lifecycle, cfg_i, regs, log, err, streaming,
                    last_sequence, last_error_count, batch,
                    dec, rec, sr, ax, decoded >>

\* line 184: clock_updater.update_clock()
BatchUpdateClock ==
    /\ pc = "idle"
    /\ lifecycle = "Sampling"
    /\ last_sequence' = UpdateClockSeq(last_sequence, dev_seq)
    /\ pc' = "batch_pull"
    /\ UNCHANGED << lifecycle, cfg_i, regs, log, err, queue, streaming,
                    dev_seq, last_error_count, batch, sent,
                    dec, rec, sr, ax, decoded >>

\* faulty variant: no test of raw_samples before decoding
process_batch_unguarded(raw_samples, last_seq, error_count) ==
    LET out == extract_samples(raw_samples, last_seq,
                               read_axes_map(DefaultAxes), TimeTranslation)
    IN  [ result |-> IF out.error # "none" THEN out.error
                     ELSE IF out.samples = << >> THEN "empty"
                     ELSE "record",
          pulled |-> raw_samples,
          samples |-> out.samples,
          updates |-> out.updates,
          errors |-> error_count,
          last_seq |-> last_seq ]

\* faulty variant: the bursts without a record counted as errors
process_batch_counting(raw_samples, last_seq, error_count) ==
    IF raw_samples = << >>
    THEN [ NoBatch EXCEPT !.result = "empty", !.last_seq = last_seq ]
    ELSE LET out == extract_samples(raw_samples, last_seq,
                                    read_axes_map(DefaultAxes),
                                    TimeTranslation)
             short == { k \in 1..Len(raw_samples) :
                          Len(raw_samples[k].data) < BYTES_PER_SAMPLE }
         IN  [ result |-> IF out.error # "none" THEN out.error
                          ELSE IF out.samples = << >> THEN "empty"
                          ELSE "record",
               pulled |-> raw_samples,
               samples |-> out.samples,
               updates |-> out.updates,
               errors |-> error_count + Cardinality(short),
               last_seq |-> last_seq ]

\* lines 185-192: what _process_batch returns or raises for raw_samples
process_batch(raw_samples, last_seq, error_count) ==
    IF raw_samples = << >>
    THEN [ NoBatch EXCEPT !.result = "empty", !.last_seq = last_seq ]
    ELSE LET out == extract_samples(raw_samples, last_seq,
                                    read_axes_map(DefaultAxes),
                                    TimeTranslation)
         IN  [ result |-> IF out.error # "none" THEN out.error
                          ELSE IF out.samples = << >> THEN "empty"
                          ELSE "record",
               pulled |-> raw_samples,
               samples |-> out.samples,
               updates |-> out.updates,
               errors |-> error_count,
               last_seq |-> last_seq ]

\* faulty variant: pull_samples() hands the bursts over and keeps them
BatchPullKeeps ==
    /\ pc = "batch_pull"
    /\ batch' = process_batch(queue, last_sequence, last_error_count)
    /\ queue' = queue
    /\ decoded' = decoded \o [k \in 1..Len(queue) |-> queue[k].id]
    /\ pc' = "idle"
    /\ UNCHANGED << lifecycle, cfg_i, regs, log, err, streaming, dev_seq,
                    last_sequence, last_error_count, sent, dec, rec, sr, ax >>

\* lines 185-192: pull_samples(), decode, return the batch record
BatchPull ==
    /\ pc = "batch_pull"
    /\ batch' = process_batch(queue, last_sequence, last_error_count)
    /\ queue' = << >>
    /\ decoded' = decoded \o [k \in 1..Len(queue) |-> queue[k].id]
    /\ pc' = "idle"
    /\ UNCHANGED << lifecycle, cfg_i, regs, log, err, streaming, dev_seq,
                    last_sequence, last_error_count, sent, dec, rec, sr, ax >>

NoDec == [ state |-> "off" ]
NoRec == [ state |-> "off" ]
NoSr == [ state |-> "off" ]
NoAx == [ state |-> "off" ]

Init ==
    /\ pc = "idle"
    /\ lifecycle = "Idle"
    /\ cfg_i = 1
    /\ regs = [r \in Regs |-> 0]
    /\ log = << >>
    /\ err = "none"
    /\ queue = << >>
    /\ streaming = FALSE
    /\ dev_seq = 0
    /\ sent = 0
    /\ last_sequence = 0
    /\ last_error_count = 0
    /\ batch = NoBatch
    /\ dec = NoDec
    /\ rec = NoRec
    /\ sr = NoSr
    /\ ax = NoAx
    /\ decoded = << >>

Next ==
    \/ StartRequest
    \/ ConfigWrite
    \/ StartClear
    \/ StartQuery
    \/ StartReFifo
    \/ StartNote
    \/ StopRequest
    \/ StopHalt
    \/ McuAck
    \/ StopClear
    \/ StopFifo
    \/ StopPowerDown
    \/ DeviceBurst
    \/ BatchUpdateClock
    \/ BatchPull

Spec == Init /\ [][Next]_vars

----------------------------------------------------------------------------
(* SpecDecode: _extract_samples on drawn inputs *)

\* bursts in one decoded batch
MaxDecBursts == 2

\* last known sequence numbers: around the 16-bit rollover
LastSeqs == {0, 1, 65535, 65536, 98304}

\* signed distances of a burst from the last known sequence
Deltas == {-32767, -32766, -1, 0, 1, 32766, 32767}

\* the 16-bit sequence number the MCU puts in a message
EncodeSeq(seq) == AndMask(seq, 65535)

\* the inputs of one call: the messages carry (last_seq + delta) mod 2^16
DecInput(last_seq, ds, ps, tt) ==
    [ state |-> "ready",
      last_seq |-> last_seq,
      deltas |-> ds,
      raw_samples |->
          [k \in 1..Len(ds) |->
              [ sequence |-> EncodeSeq(last_seq + ds[k]), data |-> ps[k] ]],
      axes_map |-> read_axes_map(DefaultAxes),
      tt |-> tt,
      seqs |-> << >>,
      out |-> [ error |-> "none", samples |-> << >>, updates |-> << >> ] ]

\* inputs with the time translation (0, 0, 0.001 s): the last known
\* sequences, the distances and the payloads drawn with it
ZeroBaseLastSeqs == {0, 1, 2, 1000, 26000}
ZeroBaseDeltas == {-1, 0, 1}
ZeroBasePayloads ==
    { << >>,
      << 0, 0, 0, 0, 0, 0 >>,
      << 1, 0, 2, 0, 3, 0, 255, 255, 254, 255, 253, 255 >> }

InitDecode ==
    /\ pc = "idle"
    /\ lifecycle = "Idle"
    /\ cfg_i = 1
    /\ regs = [r \in Regs |-> 0]
    /\ log = << >>
    /\ err = "none"
    /\ queue = << >>
    /\ streaming = FALSE
    /\ dev_seq = 0
    /\ sent = 0
    /\ last_sequence = 0
    /\ last_error_count = 0
    /\ batch = NoBatch
    /\ rec = NoRec
    /\ sr = NoSr
    /\ ax = NoAx
    /\ decoded = << >>
    /\ \/ \E last_seq \in LastSeqs, n \in 0..MaxDecBursts :
            \E ds \in [1..n -> Deltas], ps \in [1..n -> Payloads] :
              dec = DecInput(last_seq, ds, ps,
                             [ time_base |-> 0,
                               chip_base |-> last_seq * SAMPLES_PER_BLOCK,
                               inv_freq |-> 7440 ])
       \/ \E last_seq \in ZeroBaseLastSeqs, n \in 0..MaxDecBursts :
            \E ds \in [1..n -> ZeroBaseDeltas],
               ps \in [1..n -> ZeroBasePayloads] :
              dec = DecInput(last_seq, ds, ps,
                             [ time_base |-> 0, chip_base |-> 0,
                               inv_freq |-> 10000 ])

\* one call of _extract_samples
Decode ==
    /\ dec.state = "ready"
    /\ dec' = [ dec EXCEPT
                  !.state = "done",
                  !.seqs = [k \in 1..Len(dec.raw_samples) |->
                              ResolveSeq(dec.raw_samples[k].sequence,
                                         dec.last_seq)],
                  !.out = extract_samples(dec.raw_samples, dec.last_seq,
                                          dec.axes_map, dec.tt) ]
    /\ UNCHANGED << driverVars, rec, sr, ax >>

NextDecode == Decode

SpecDecode == InitDecode /\ [][NextDecode]_vars

----------------------------------------------------------------------------
(* SpecRecord: one 6-byte record, over every byte pair on every channel *)

InitRecord ==
    /\ pc = "idle"
    /\ lifecycle = "Idle"
    /\ cfg_i = 1
    /\ regs = [r \in Regs |-> 0]
    /\ log = << >>
    /\ err = "none"
    /\ queue = << >>
    /\ streaming = FALSE
    /\ dev_seq = 0
    /\ sent = 0
    /\ last_sequence = 0
    /\ last_error_count = 0
    /\ batch = NoBatch
    /\ dec = NoDec
    /\ sr = NoSr
    /\ ax = NoAx
    /\ decoded = << >>
    /\ \E low \in 0..255, high \in 0..255 :
         rec = [ state |-> "raw",
                 d |-> << low, high, 255 - low, 255 - high, high, low >>,
                 raw_xyz |-> << 0, 0, 0 >> ]

\* lines 127-134 on the record
DecodeRecord ==
    /\ rec.state = "raw"
    /\ rec' = [ rec EXCEPT !.state = "done", !.raw_xyz = RawXYZ(rec.d, 0) ]
    /\ UNCHANGED << driverVars, dec, sr, ax >>

NextRecord == DecodeRecord

SpecRecord == InitRecord /\ [][NextRecord]_vars

----------------------------------------------------------------------------
(* SpecAxes: read_axes_map on drawn axes_map options, and the three axis   *)
(* values of one record decoded with the result                            *)

\* the labels an axes_map option is drawn from: am's keys and one other
ConfigLabels == AxisLabels \cup {"w"}

\* the signed 16-bit channel values drawn for the record
RawEdges == {-32768, -1, 0, 1, 32767}

InitAxes ==
    /\ pc = "idle"
    /\ lifecycle = "Idle"
    /\ cfg_i = 1
    /\ regs = [r \in Regs |-> 0]
    /\ log = << >>
    /\ err = "none"
    /\ queue = << >>
    /\ streaming = FALSE
    /\ dev_seq = 0
    /\ sent = 0
    /\ last_sequence = 0
    /\ last_error_count = 0
    /\ batch = NoBatch
    /\ dec = NoDec
    /\ rec = NoRec
    /\ sr = NoSr
    /\ decoded = << >>
    /\ \E labels \in [1..3 -> ConfigLabels], raw_xyz \in [1..3 -> RawEdges] :
         ax = [ state |-> "config", labels |-> labels, raw_xyz |-> raw_xyz,
                raised |-> "none", axes_map |-> << >>, xyz |-> << >> ]

\* lines 72-78 and 136-138: read_axes_map, then x, y, z of the record
AxesCall ==
    /\ ax.state = "config"
    /\ ax' = IF axes_map_invalid(ax.labels)
             THEN [ ax EXCEPT !.state = "done", !.raised = "config.error" ]
             ELSE LET axes_map == read_axes_map(ax.labels)
                  IN  [ ax EXCEPT
                          !.state = "done",
                          !.axes_map = axes_map,
                          !.xyz = [k \in 1..3 |->
                                      AxisValue(ax.raw_xyz, axes_map[k])] ]
    /\ UNCHANGED << driverVars, dec, rec, sr >>

NextAxes == AxesCall

SpecAxes == InitAxes /\ [][NextAxes]_vars

----------------------------------------------------------------------------
(* SpecSetReg: set_reg on drawn registers, values and read-backs *)

\* register addresses: 7 bits, the eighth is REG_MOD_READ
RegAddrs == 0..127

InitSetReg ==
    /\ pc = "idle"
    /\ lifecycle = "Idle"
    /\ cfg_i = 1
    /\ regs = [r \in Regs |-> 0]
    /\ log = << >>
    /\ err = "none"
    /\ queue = << >>
    /\ streaming = FALSE
    /\ dev_seq = 0
    /\ sent = 0
    /\ last_sequence = 0
    /\ last_error_count = 0
    /\ batch = NoBatch
    /\ dec = NoDec
    /\ rec = NoRec
    /\ ax = NoAx
    /\ decoded = << >>
    /\ \E reg \in RegAddrs, val \in 0..255 :
         \E stored_val \in
               IF reg \in {REG_LIS3DH_CTRL_REG1_ADDR, REG_LIS3DH_FIFO_CTRL}
               THEN 0..255
               ELSE {val, (val + 1) % 256, 255 - val} :
           sr = [ state |-> "call", reg |-> reg, val |-> val,
                  stored_val |-> stored_val, ops |-> << >>,
                  raised |-> "none" ]

\* lines 96-104: one call of set_reg
SetRegCall ==
    /\ sr.state = "call"
    /\ sr' = [ sr EXCEPT
                 !.state = "done",
                 !.ops = SetRegOps(sr.reg, sr.val, sr.stored_val),
                 !.raised = IF SetRegFails(sr.val, sr.stored_val)
                            THEN "DeviceIntegrityError" ELSE "none" ]
    /\ UNCHANGED << driverVars, dec, rec, ax >>

NextSetReg == SetRegCall

SpecSetReg == InitSetReg /\ [][NextSetReg]_vars

----------------------------------------------------------------------------
(* Properties *)

IsWrite(e) == e[1] = "write"
IsRead(e) == e[1] = "read"
IsIdentityRead(e) ==
    IsRead(e) /\ e[2] = REG_LIS3DH_WHO_AM_I_ADDR + REG_MOD_READ

\* the register writes of the log, in order, as << address, byte >>
WritesOf(l) ==
    LET w == SelectSeq(l, IsWrite)
    IN  [k \in 1..Len(w) |-> << w[k][2], w[k][3] >>]

\* the log is that of a start (it opens with the identity read)
StartLog == log # << >> /\ IsIdentityRead(log[1])
\* the log is that of a stop (it opens with the FIFO write)
StopLog == log # << >> /\ IsWrite(log[1])

\* C1: a start that reads an identity other than 0x33 fails with the
\* identity error, issues no register write and no begin-streaming command,
\* and leaves the lifecycle Idle.
C1_IdentityMismatchStops ==
    (StartLog /\ log[1][3] # 51) =>
        /\ err = "DeviceIdentityError"
        /\ lifecycle = "Idle"
        /\ pc = "idle"
        /\ \A k \in 1..Len(log) : log[k][1] \notin {"write", "query"}

C1_Witness ==
    /\ StartLog
    /\ log[1][3] = 255
    /\ err = "DeviceIdentityError"
    /\ lifecycle = "Idle"

\* The register groups the start sequence is described with: 1 the
\* data-rate/power-mode register, 2 the interrupt/config registers (the
\* ones the baseline profile zeroes), 3 the output-resolution register,
\* 4 the FIFO registers.
RegGroup(reg) ==
    CASE reg = 32 -> 1
      [] reg \in {33, 34, 37} -> 2
      [] reg = 35 -> 3
      [] reg \in {36, 46} -> 4

\* all eight configuration writes of a start were verified
StartConfigured == StartLog /\ pc = "start_clear" /\ lifecycle = "Armed"

\* C2 as stated: once the configuration of a start is verified, the writes
\* were issued group by group (data-rate, then all interrupt/config, then
\* output-resolution, then FIFO), FIFO-disable before FIFO-enable.
C2_GroupOrder ==
    StartConfigured =>
        LET w == WritesOf(log)
        IN  /\ \A a, b \in 1..Len(w) :
                  a < b => RegGroup(w[a][1]) <= RegGroup(w[b][1])
            /\ \E a, b \in 1..Len(w) :
                  a < b /\ w[a] = << 46, 0 >> /\ w[b] = << 46, 128 >>

\* the order of the code: registers 0x20 to 0x25 by address, then FIFO_CTRL
ConfigOrder ==
    << << 32, 151 >>, << 33, 0 >>, << 34, 0 >>, << 35, 40 >>,
       << 36, 64 >>, << 37, 0 >>, << 46, 0 >>, << 46, 128 >> >>

\* C2 amended: the configuration writes of a start are issued in the order
\* CTRL_REG1 (data rate), CTRL_REG2, CTRL_REG3, CTRL_REG4 (resolution),
\* CTRL_REG5, CTRL_REG6, FIFO_CTRL = 0 (disable), FIFO_CTRL = 0x80 (enable):
\* the interrupt/config register CTRL_REG6 follows the output-resolution
\* register, and FIFO-disable is strictly before FIFO-enable.
C2_AddressOrder ==
    /\ StartLog =>
           LET w == WritesOf(log)
           IN  \A k \in 1..Len(w) : k <= 8 => w[k] = ConfigOrder[k]
    /\ StartConfigured => WritesOf(log) = ConfigOrder

C2_Witness ==
    /\ StartConfigured
    /\ WritesOf(log) = ConfigOrder
    /\ regs[46] = 128

\* C3: set_reg raises the integrity error exactly when the byte read back
\* differs from the byte written, whatever the register and the value; the
\* read-back is of the register written.
C3_SetRegRaisesIffMismatch ==
    sr.state = "done" =>
        /\ sr.ops[1][1] = "write"
        /\ sr.ops[2][1] = "read"
        /\ sr.ops[1][2] = sr.reg
        /\ sr.ops[2][2] = sr.reg + 128
        /\ sr.ops[1][3] = sr.val
        /\ (sr.raised = "DeviceIntegrityError") <=> (sr.ops[2][3] # sr.ops[1][3])

C3_Witness ==
    /\ sr.state = "done"
    /\ sr.reg = 46
    /\ sr.val = 128
    /\ sr.stored_val = 0
    /\ sr.raised = "DeviceIntegrityError"

\* C4: a stop that ends with an integrity error has still attempted the
\* power-down write (CTRL_REG1 = 0).
C4_StopStillPowersDown ==
    (StopLog /\ pc = "idle" /\ err = "DeviceIntegrityError") =>
        \E k \in 1..Len(log) : log[k] = << "write", 32, 0 >>

\* the transport operations of a stop whose steps all succeed
StopOrder ==
    << << "write", 46, 0 >>, << "read", 174, 0 >>,
       << "query_wait_ack", 0, 0 >>, << "ack", 0, 0 >>,
       << "clear", 0, 0 >>,
       << "write", 46, 0 >>, << "read", 174, 0 >>,
       << "write", 32, 0 >>, << "read", 160, 0 >> >>

StopSucceeded == StopLog /\ pc = "idle" /\ err = "none"

\* C5: a stop whose steps all succeed performs FIFO disable, the halt
\* command and its acknowledgment, the buffer clear, the second FIFO
\* disable and the power-down write, in this order; in any stop the buffer
\* is cleared only after the acknowledgment.
C5_StopOrder ==
    /\ StopSucceeded => log = StopOrder
    /\ StopLog =>
          \A k \in 1..Len(log) :
              log[k][1] = "clear" =>
                  \E i, j \in 1..(k - 1) :
                      /\ i < j
                      /\ log[i][1] = "query_wait_ack"
                      /\ log[j][1] = "ack"

C5_Witness == StopSucceeded /\ log = StopOrder /\ queue = << >>

\* the last batch pulled at least one burst
BatchPulled == batch.result # "none" /\ batch.pulled # << >>

\* C6: a batch period whose pulled bursts all hold less than one record
\* raises nothing, returns no batch record and reports no sample index.
C6_ZeroSampleBatchIsNoop ==
    ( /\ BatchPulled
      /\ \A k \in 1..Len(batch.pulled) : Len(batch.pulled[k].data) < 6 ) =>
        /\ batch.result = "empty"
        /\ batch.updates = << >>

\* C7: a batch period that pulls no burst yields no samples and reports no
\* sample index to the clock sync.
C7_EmptyPullIsNoop ==
    (batch.result # "none" /\ batch.pulled = << >>) =>
        /\ batch.result = "empty"
        /\ batch.samples = << >>
        /\ batch.updates = << >>

C7_Witness ==
    /\ batch.result = "empty"
    /\ batch.pulled = << >>
    /\ lifecycle = "Sampling"

\* the signed 16-bit reading of sequence - last_seq
SignedDelta(sequence, last_seq) ==
    LET u == (sequence - last_seq) % 65536
    IN  IF u >= 32768 THEN u - 65536 ELSE u

\* C8: a batch with at least one burst reports the sample index exactly
\* once, as seq * 8 + (index of the last record of the last burst), seq
\* being the absolute sequence of the last burst, also when that burst is
\* empty.
C8_OneIndexUpdatePerBatch ==
    BatchPulled =>
        LET last == batch.pulled[Len(batch.pulled)]
            seq == batch.last_seq + SignedDelta(last.sequence, batch.last_seq)
        IN  /\ Len(batch.updates) = 1
            /\ batch.updates[1] = seq * 8 + ((Len(last.data) \div 6) - 1)

\* C9: for a burst sent with sequence (last + delta) mod 65536, delta in
\* -32767..32767, the decoder resolves the absolute sequence last + delta,
\* and the index it reports is that of the last burst's sequence.
C9_SeqRoundTrip ==
    dec.state = "done" =>
        /\ \A k \in 1..Len(dec.raw_samples) :
              (dec.deltas[k] >= -32767 /\ dec.deltas[k] <= 32767) =>
                  dec.seqs[k] = dec.last_seq + dec.deltas[k]
        /\ dec.out.error = "none" =>
              LET n == Len(dec.raw_samples)
              IN  \E i \in 0..7 :
                    dec.out.updates =
                        << (dec.last_seq + dec.deltas[n]) * 8 + i >>

C9_Witness ==
    /\ dec.state = "done"
    /\ dec.last_seq = 65536
    /\ Len(dec.raw_samples) = 2
    /\ dec.deltas[2] = -32767
    /\ dec.raw_samples[2].sequence = 32769
    /\ dec.seqs[2] = 32769
    /\ dec.out.updates = << 32769 * 8 + 1 >>

\* the ids of the buffered bursts, in buffer order
QueueIds == [k \in 1..Len(queue) |-> queue[k].id]

StrictlyIncreasing(ids) ==
    \A i, j \in 1..Len(ids) : i < j => ids[i] < ids[j]

\* C13 as stated: every burst the MCU sent is decoded exactly once and in
\* arrival order, so that once a stop has completed, the bursts handed to
\* the decoder are all the bursts sent, each once, in the order sent.
C13_ExactlyOnce ==
    StopSucceeded => decoded = [k \in 1..sent |-> k]

\* C13 amended: every burst the MCU sent is handed to the decoder at most
\* once and in arrival order, and a burst still buffered was sent after
\* every burst decoded; the bursts buffered when a start or a stop clears
\* the buffer are discarded and never decoded.
C13_AtMostOnceInOrder ==
    /\ StrictlyIncreasing(decoded \o QueueIds)
    /\ \A k \in 1..Len(decoded) : decoded[k] \in 1..sent
    /\ \A k \in 1..Len(queue) : queue[k].id \in 1..sent
    /\ BatchPulled =>
          /\ Len(batch.pulled) <= Len(decoded)
          /\ \A k \in 1..Len(batch.pulled) :
                batch.pulled[k].id =
                    decoded[Len(decoded) - Len(batch.pulled) + k]

C13_Witness ==
    /\ sent = 2
    /\ decoded = << 2 >>
    /\ batch.result = "record"
    /\ queue = << >>

\* the read at position k of the log is the read-back of the write before
\* it and differs from the byte written
ReadBackMismatch(k) ==
    /\ k >= 2
    /\ IsRead(log[k])
    /\ IsWrite(log[k - 1])
    /\ log[k][3] # log[k - 1][3]

LogHas(op) == \E k \in 1..Len(log) : log[k][1] = op

\* the position in a start log of the read-back of the eighth
\* configuration write
LastConfigReadBack == 1 + 2 * Len(ConfigOrder)

\* the abort of a start at the read-back at position k: the error, nothing
\* issued after the read-back, no start marker, the registers left as the
\* chip last answered
AbortedAt(k) ==
    /\ k = Len(log)
    /\ err = "DeviceIntegrityError"
    /\ pc = "idle"
    /\ lifecycle = "Idle"
    /\ ~LogHas("note_start")
    /\ regs[log[k - 1][2]] = log[k][3]
    /\ \A j \in 2..(k - 2) :
          ( /\ IsWrite(log[j])
            /\ \A i \in (j + 1)..k : IsWrite(log[i]) => log[i][2] # log[j][2] )
          => regs[log[j][2]] = log[j][3]

\* C16 as stated: a start in which some verified write fails its read-back
\* ends there with the integrity error, and no buffer clear, no
\* begin-streaming command and no start marker was issued in that start.
C16_NoClearNoQueryInFailedStart ==
    StartLog =>
        \A k \in 1..Len(log) :
            ReadBackMismatch(k) =>
                /\ AbortedAt(k)
                /\ ~LogHas("clear")
                /\ ~LogHas("query")

\* C16 amended: a start in which a verified write fails its read-back ends
\* there with the integrity error: nothing is issued after the failing
\* read-back, no start marker is recorded, and the registers already
\* written keep what was written. When the failing write is one of the
\* eight configuration writes, no buffer clear and no begin-streaming
\* command was issued in that start; when it is the FIFO re-write that
\* follows the begin-streaming command, the buffer clear and the
\* begin-streaming command were already issued and are not undone.
C16_AbortAtFailedReadBack ==
    StartLog =>
        \A k \in 1..Len(log) :
            ReadBackMismatch(k) =>
                /\ AbortedAt(k)
                /\ IF k <= LastConfigReadBack
                   THEN ~LogHas("clear") /\ ~LogHas("query")
                   ELSE /\ log[k - 3] = << "clear", 0, 0 >>
                        /\ log[k - 2][1] = "query"
                        /\ log[k - 2][2] # 0

C16_Witness ==
    /\ StartLog
    /\ Len(log) = 9
    /\ ReadBackMismatch(9)
    /\ log[8] = << "write", 35, 40 >>
    /\ err = "DeviceIntegrityError"
    /\ regs[32] = 151
    /\ regs[35] = 255

\* C17: a start that reaches Sampling issued, after the identity read and
\* the eight verified configuration writes, the buffer clear, then the
\* begin-streaming command with a non-zero poll interval, then the verified
\* re-write of FIFO_CTRL = 0x80, then the start marker, and the error
\* counter is zero; in any start a begin-streaming command has the buffer
\* clear right before it and all eight configuration writes before that.
C17_StartTail ==
    /\ (StartLog /\ lifecycle = "Sampling") =>
          /\ Len(log) = 22
          /\ WritesOf(SubSeq(log, 1, 17)) = ConfigOrder
          /\ \A k \in 1..Len(log) : ~ReadBackMismatch(k)
          /\ log[18] = << "clear", 0, 0 >>
          /\ log[19][1] = "query"
          /\ log[19][2] # 0
          /\ log[20] = << "write", 46, 128 >>
          /\ log[21] = << "read", 174, 128 >>
          /\ log[22] = << "note_start", 0, 0 >>
          /\ last_error_count = 0
          /\ err = "none"
    /\ StartLog =>
          \A k \in 1..Len(log) :
              log[k][1] = "query" =>
                  /\ k = 19
                  /\ log[18][1] = "clear"
                  /\ WritesOf(SubSeq(log, 1, 17)) = ConfigOrder

C17_Witness ==
    /\ StartLog
    /\ lifecycle = "Sampling"
    /\ pc = "idle"
    /\ Len(log) = 22
    /\ log[19] = << "query", 35714, 0 >>
    /\ log[22][1] = "note_start"

\* the register writes _start_measurements and _finish_measurements hold
StartWriteOrder == ConfigOrder \o << << 46, 128 >> >>
StopWriteOrder == << << 46, 0 >>, << 46, 0 >>, << 32, 0 >> >>

IsPrefix(a, b) == Len(a) <= Len(b) /\ a = SubSeq(b, 1, Len(a))

\* C18: in every start and stop, each register write is followed at once,
\* before any other transport operation or command, by a read of the same
\* register address, and the only register writes issued are those of the
\* start and stop sequences, in their order.
C18_WriteThenReadBack ==
    /\ \A k \in 1..Len(log) :
          IsWrite(log[k]) =>
              /\ k < Len(log)
              /\ IsRead(log[k + 1])
              /\ log[k + 1][2] = log[k][2] + 128
    /\ StartLog => IsPrefix(WritesOf(log), StartWriteOrder)
    /\ StopLog => IsPrefix(WritesOf(log), StopWriteOrder)

C18_Witness ==
    /\ StopLog
    /\ Len(log) = 7
    /\ log[6] = << "write", 46, 0 >>
    /\ log[7] = << "read", 174, 255 >>
    /\ err = "DeviceIntegrityError"

\* a burst that has left the buffer does not come back into it
NoBurstReturns ==
    \A id \in 1..sent :
        (\A k \in 1..Len(queue) : queue[k].id # id) =>
            (\A k \in 1..Len(queue') : queue'[k].id # id)

\* a batch period begins only while the driver is sampling
BatchOnlyWhileSampling == (pc' = "batch_pull") => (lifecycle = "Sampling")

\* C19: when a stop completes without error the MCU has stopped sending
\* and the buffer is empty; while the MCU is not sending (until the
\* begin-streaming command of the next start) the buffer stays empty,
\* except between the halt acknowledgment and the clear of the stop; a
\* burst that has left the buffer never returns and no batch period begins
\* outside Sampling, so no burst sent before the stop is decoded after it.
C19_StopLeavesBufferEmpty ==
    /\ [](StopSucceeded => (queue = << >> /\ ~streaming))
    /\ []((~streaming /\ pc # "stop_clear") => queue = << >>)
    /\ [][NoBurstReturns /\ BatchOnlyWhileSampling]_vars

C19_Witness ==
    /\ StopSucceeded
    /\ sent = 1
    /\ decoded = << >>
    /\ queue = << >>
    /\ ~streaming

\* C20: the error counter is 0 in every state, and every batch outcome,
\* the published records among them, carries errors = 0.
C20_ErrorCountZero ==
    /\ last_error_count = 0
    /\ batch.errors = 0

C20_Witness ==
    /\ batch.result = "record"
    /\ Len(batch.pulled) = 2
    /\ Len(batch.pulled[1].data) = 0
    /\ batch.errors = 0
    /\ last_error_count = 0

\* the channel a label names
ChannelOf(a) ==
    CASE a \in {"x", "-x"} -> 0
      [] a \in {"y", "-y"} -> 1
      [] a \in {"z", "-z"} -> 2

\* C15: an output axis whose entry has scale zero decodes to 0 whatever the
\* raw channel value, and each of the labels -x, -y, -z is the entry
\* (channel 0, 1, 2; scale 0), so the axis reads 0 and not the negated
\* channel; the other labels read channel * SCALE.
C15_NegativeLabelIsZeroScale ==
    (ax.state = "done" /\ ax.raised = "none") =>
        \A k \in 1..3 :
            /\ (ax.axes_map[k][2] = 0) => (ax.xyz[k] = 0)
            /\ IF ax.labels[k] \in {"-x", "-y", "-z"}
               THEN /\ ax.axes_map[k] = << ChannelOf(ax.labels[k]), 0 >>
                    /\ ax.xyz[k] = 0
               ELSE ax.xyz[k] = ax.raw_xyz[ChannelOf(ax.labels[k]) + 1] * 2394

C15_Witness ==
    /\ ax.state = "done"
    /\ ax.labels = << "-x", "y", "-z" >>
    /\ ax.raw_xyz = << 32767, -1, -32768 >>
    /\ ax.xyz = << 0, -2394, 0 >>

\* a byte pair, low byte first, read as a signed 16-bit number
SignedPair(low, high) ==
    IF high >= 128 THEN (high - 256) * 256 + low ELSE high * 256 + low

\* the complete records of a payload
RecCount(d) == Len(d) \div 6

RECURSIVE RecordsBefore(_, _)
\* the complete records of the bursts before the k-th
RecordsBefore(raw, k) ==
    IF k <= 1 THEN 0
    ELSE RecordsBefore(raw, k - 1) + RecCount(raw[k - 1].data)

\* the absolute sequence of the k-th burst of the decoded batch
AbsSeq(k) ==
    dec.last_seq + SignedDelta(dec.raw_samples[k].sequence, dec.last_seq)

\* the first and the last sample decoded from the k-th burst
FirstOf(k) == dec.out.samples[RecordsBefore(dec.raw_samples, k) + 1]
LastOf(k) ==
    dec.out.samples[RecordsBefore(dec.raw_samples, k)
                    + RecCount(dec.raw_samples[k].data)]

\* the decoder returned, and bursts k and k + 1 both hold a record
BothHoldRecords(k) ==
    /\ RecCount(dec.raw_samples[k].data) > 0
    /\ RecCount(dec.raw_samples[k + 1].data) > 0

\* C11 as stated: the first timestamp of a burst is not smaller than the
\* last timestamp of the burst before it, whatever the two bursts.
C11_NonDecreasing ==
    (dec.state = "done" /\ dec.out.error = "none") =>
        \A k \in 1..(Len(dec.raw_samples) - 1) :
            BothHoldRecords(k) => FirstOf(k + 1).ptime >= LastOf(k).ptime

\* C11 amended: the first timestamp of a burst is not smaller than the
\* last timestamp of the burst before it when the later burst's absolute
\* sequence is greater than the earlier one's; a burst that repeats or
\* precedes the sequence of the burst before it is neither reordered nor
\* rejected, and its timestamps can be smaller.
C11_NonDecreasingInSeqOrder ==
    (dec.state = "done" /\ dec.out.error = "none") =>
        \A k \in 1..(Len(dec.raw_samples) - 1) :
            (BothHoldRecords(k) /\ AbsSeq(k + 1) > AbsSeq(k)) =>
                FirstOf(k + 1).ptime >= LastOf(k).ptime

C11_Witness ==
    /\ dec.state = "done"
    /\ dec.out.error = "none"
    /\ Len(dec.raw_samples) = 2
    /\ dec.last_seq = 65536
    /\ dec.raw_samples[1].sequence = 65535
    /\ dec.raw_samples[2].sequence = 0
    /\ RecCount(dec.raw_samples[1].data) = 2
    /\ RecCount(dec.raw_samples[2].data) = 2
    /\ LastOf(1).ptime = -5208
    /\ FirstOf(2).ptime = 0

RECURSIVE RecordIndex(_, _)
\* << burst, record >> of every complete record from the k-th burst on, in
\* burst order and then record order
RecordIndex(raw, k) ==
    IF k > Len(raw) THEN << >>
    ELSE [j \in 1..RecCount(raw[k].data) |-> << k, j - 1 >>]
         \o RecordIndex(raw, k + 1)

\* channel c (0..2) of record j of payload d, read as signed 16 bits
Channel(d, j, c) == SignedPair(d[6 * j + 2 * c + 1], d[6 * j + 2 * c + 2])

\* the sample the decoder owes for record j of the k-th burst
ExpectedSample(k, j) ==
    LET d == dec.raw_samples[k].data
        am == dec.axes_map
    IN  [ ptime |-> Round6(dec.tt.time_base
                           + (AbsSeq(k) * 8 - dec.tt.chip_base + j)
                             * dec.tt.inv_freq),
          x |-> Channel(d, j, am[1][1]) * am[1][2],
          y |-> Channel(d, j, am[2][1]) * am[2][2],
          z |-> Channel(d, j, am[3][1]) * am[3][2] ]

\* C12: the decoder returns one sample per complete record of every burst,
\* in burst order and then record order, also for bursts with the same
\* sequence number or the same payload; it returns nothing only when no
\* burst holds a complete record.
C12_OneSamplePerRecord ==
    dec.state = "done" =>
        LET idx == RecordIndex(dec.raw_samples, 1)
        IN  IF dec.out.error = "none"
            THEN /\ Len(dec.out.samples) = Len(idx)
                 /\ \A p \in 1..Len(idx) :
                       dec.out.samples[p] = ExpectedSample(idx[p][1], idx[p][2])
            ELSE Len(idx) = 0

C12_Witness ==
    /\ dec.state = "done"
    /\ Len(dec.raw_samples) = 2
    /\ dec.raw_samples[1] = dec.raw_samples[2]
    /\ RecCount(dec.raw_samples[1].data) = 2
    /\ Len(dec.out.samples) = 4
    /\ dec.out.samples[1] = dec.out.samples[3]
    /\ dec.out.samples[2] = dec.out.samples[4]
    /\ dec.out.samples[1] # dec.out.samples[2]

\* one burst with the last known sequence and one all-zero record, under
\* the time translation (0, 0, 0.001 s)
ZeroRecordInput ==
    /\ dec.state = "done"
    /\ Len(dec.raw_samples) = 1
    /\ dec.deltas[1] = 0
    /\ dec.raw_samples[1].data = << 0, 0, 0, 0, 0, 0 >>
    /\ dec.tt = [ time_base |-> 0, chip_base |-> 0, inv_freq |-> 10000 ]

\* C14 as stated: that input decodes to one sample (0, 0, 0, 0) for every
\* last known sequence.
C14_ZeroSample ==
    ZeroRecordInput =>
        dec.out.samples = << [ ptime |-> 0, x |-> 0, y |-> 0, z |-> 0 ] >>

\* C14 amended: that input decodes to exactly one sample whose axis values
\* are zero and whose timestamp is lastSequence * 8 * 0.001 s (8000
\* microseconds per sequence step): it is (0, 0, 0, 0) for lastSequence 0
\* only.
C14_ZeroAxesTimeOfSequence ==
    ZeroRecordInput =>
        /\ dec.out.error = "none"
        /\ dec.out.samples =
              << [ ptime |-> dec.last_seq * 8000, x |-> 0, y |-> 0, z |-> 0 ] >>
        /\ (dec.out.samples[1].ptime = 0) <=> (dec.last_seq = 0)

C14_Witness ==
    /\ ZeroRecordInput
    /\ dec.last_seq = 0
    /\ dec.out.samples = << [ ptime |-> 0, x |-> 0, y |-> 0, z |-> 0 ] >>

\* the signed 16-bit two's-complement reading of a byte pair
Signed16(low, high) ==
    LET u == high * 256 + low
    IN  IF u >= 32768 THEN u - 65536 ELSE u

\* C10: each channel of a record is the signed 16-bit reading of its own
\* byte pair, low byte first, and lies in -32768..32767.
C10_TwosComplementPerChannel ==
    rec.state = "done" =>
        \A c \in 1..3 :
            /\ rec.raw_xyz[c] = Signed16(rec.d[2 * c - 1], rec.d[2 * c])
            /\ rec.raw_xyz[c] >= -32768
            /\ rec.raw_xyz[c] <= 32767

C10_Witness ==
    /\ rec.state = "done"
    /\ rec.d = << 0, 128, 255, 127, 128, 0 >>
    /\ rec.raw_xyz = << -32768, 32767, 128 >>

====
